---- MODULE Spec2Model ----
(***************************************************************************)
(* Model of the portfolio-management core of class Persona                 *)
(* (reverie/backend_server/persona/persona1.py).                           *)
(*                                                                         *)
(* A Python dict is modelled as a sequence of entries [stock, info] in     *)
(* insertion order (the order a dict iterates in).  A holding `info` is a  *)
(* record that has exactly the keys the Python dict has, so a missing key  *)
(* is a field outside DOMAIN info.  A Python value is a pair <<n, d>>:     *)
(* with d > 0 it is the exact number n/d in lowest terms, with d = 0 it is *)
(* not a number (None, or a market_info dict).  Every method is one atomic *)
(* action (the class is single-threaded); an exception ends the method and *)
(* is recorded in `call`, the record of the last call and its outcome.     *)
(***************************************************************************)
EXTENDS Integers, Sequences, FiniteSets, TLC

VARIABLES current_investments, market_knowledge, call, nops

vars == <<current_investments, market_knowledge, call, nops>>

(***************************************************************************)
(* Bounds of the model.                                                    *)
(***************************************************************************)
\* number of method calls in one behaviour
MaxOps == 3

(***************************************************************************)
(* Python values.                                                          *)
(***************************************************************************)
NoneVal == <<0, 0>>
DictVal == <<1, 0>>
IsNum(x) == x[2] > 0

Abs(n) == IF n < 0 THEN -n ELSE n

RECURSIVE GCD(_, _)
GCD(a, b) == IF b = 0 THEN a ELSE GCD(b, a % b)

Norm(n, d) ==
    LET s == IF d < 0 THEN -1 ELSE 1
        g == GCD(Abs(n), Abs(d))
    IN  <<(s * n) \div g, (s * d) \div g>>

Num(n) == <<n, 1>>
Zero == Num(0)
One == Num(1)
\* the arithmetic cancels common factors before it multiplies
RAdd(a, b) ==
    LET g == GCD(a[2], b[2])
    IN  Norm(a[1] * (b[2] \div g) + b[1] * (a[2] \div g), (a[2] \div g) * b[2])
RNeg(a) == <<-a[1], a[2]>>
RSub(a, b) == RAdd(a, RNeg(b))
RMul(a, b) ==
    LET g1 == GCD(Abs(a[1]), b[2])
        g2 == GCD(Abs(b[1]), a[2])
    IN  Norm((a[1] \div g1) * (b[1] \div g2), (a[2] \div g2) * (b[2] \div g1))
\* b is not zero
RDiv(a, b) == RMul(a, IF b[1] < 0 THEN <<-b[2], -b[1]>> ELSE <<b[2], b[1]>>)
RLt(a, b) ==
    LET g == GCD(a[2], b[2])
    IN  a[1] * (b[2] \div g) < b[1] * (a[2] \div g)
RGe(a, b) == ~RLt(a, b)

(***************************************************************************)
(* Dicts in insertion order.                                               *)
(***************************************************************************)
Keys(d) == {d[i].stock : i \in 1..Len(d)}
Has(d, s) == s \in Keys(d)
Idx(d, s) == CHOOSE i \in 1..Len(d) : d[i].stock = s
Get(d, s) == d[Idx(d, s)].info
\* d[s] = v: an existing key keeps its place, a new key goes last
Put(d, s, v) ==
    IF Has(d, s)
    THEN [d EXCEPT ![Idx(d, s)].info = v]
    ELSE Append(d, [stock |-> s, info |-> v])
\* del d[s]
Del(d, s) == SelectSeq(d, LAMBDA e : e.stock # s)
HasKey(info, k) == k \in DOMAIN info

(***************************************************************************)
(* initialize_market_knowledge: the two seed observations.                 *)
(***************************************************************************)
SeedMarketKnowledge ==
    << [stock |-> "StockA",
        info |-> [current_price |-> Num(100), sentiment |-> <<3, 5>>,
                  is_undervalued |-> TRUE]],
       [stock |-> "StockB",
        info |-> [current_price |-> Num(150), sentiment |-> <<2, 5>>,
                  is_undervalued |-> FALSE]] >>

Symbols == {"StockA", "StockB"}

(***************************************************************************)
(* initialize_investments: the empty dict, or whatever investments.json    *)
(* holds.  The loaded holdings enumerated here are well-formed ones: every *)
(* key present, quantity and prices positive.                              *)
(***************************************************************************)
LoadableInfo ==
    [quantity : {Num(5), Num(10)},
     purchase_price : {Num(100)},
     current_price : {Num(100)},
     desired_allocation : {Zero, <<7, 10>>},
     should_rebalance : BOOLEAN]

LoadablePortfolios ==
    {<<>>}
    \cup {<<[stock |-> s, info |-> h]>> : s \in Symbols, h \in LoadableInfo}
    \cup {<<[stock |-> p[1], info |-> h], [stock |-> p[2], info |-> g]>> :
             p \in {x \in Symbols \X Symbols : x[1] # x[2]},
             h \in LoadableInfo, g \in LoadableInfo}

\* the amounts a caller passes to buy_stock and sell_stock
Amounts == {Num(-5), Zero, Num(5), Num(10)}

(***************************************************************************)
(* The outcome of a method: the portfolio it leaves, the exception it      *)
(* raised ("none" when it returned) and the value it returned.             *)
(***************************************************************************)
Outcome(ci, exc, ret) == [ci |-> ci, exc |-> exc, ret |-> ret]

\* buy_stock, had it set purchase_price on every buy
BuyStockOnRepriced(ci, stock, amount) ==
    IF ~Has(market_knowledge, stock)
    THEN Outcome(ci, "KeyError", NoneVal)
    ELSE IF Has(ci, stock)
         THEN LET info == Get(ci, stock)
              IN  IF IsNum(info.quantity) /\ IsNum(amount)
                  THEN Outcome(Put(ci, stock,
                                   [info EXCEPT
                                      !.quantity = RAdd(@, amount),
                                      !.purchase_price =
                                          Get(market_knowledge,
                                              stock).current_price]),
                               "none", NoneVal)
                  ELSE Outcome(ci, "TypeError", NoneVal)
         ELSE Outcome(Put(ci, stock,
                          [quantity |-> amount,
                           purchase_price |->
                               Get(market_knowledge, stock).current_price]),
                      "none", NoneVal)

\* buy_stock(stock, amount)
BuyStockOn(ci, stock, amount) ==
    IF Has(ci, stock)
    THEN LET info == Get(ci, stock)
         IN  IF IsNum(info.quantity) /\ IsNum(amount)
             THEN Outcome(Put(ci, stock,
                              [info EXCEPT !.quantity = RAdd(@, amount)]),
                          "none", NoneVal)
             ELSE Outcome(ci, "TypeError", NoneVal)
    ELSE IF ~Has(market_knowledge, stock)
         THEN Outcome(ci, "KeyError", NoneVal)
         ELSE Outcome(Put(ci, stock,
                          [quantity |-> amount,
                           purchase_price |->
                               Get(market_knowledge, stock).current_price]),
                      "none", NoneVal)

\* sell_stock, had it not compared the held quantity with the amount
SellStockOnUnchecked(ci, stock, amount) ==
    IF ~Has(ci, stock)
    THEN Outcome(ci, "none", NoneVal)
    ELSE LET info == Get(ci, stock)
         IN  IF ~(IsNum(info.quantity) /\ IsNum(amount))
             THEN Outcome(ci, "TypeError", NoneVal)
             ELSE LET q == RSub(info.quantity, amount)
                  IN  IF q = Zero
                      THEN Outcome(Del(ci, stock), "none", NoneVal)
                      ELSE Outcome(Put(ci, stock,
                                       [info EXCEPT !.quantity = q]),
                                   "none", NoneVal)

\* sell_stock, had it kept a holding whose quantity reached zero
SellStockOnKeepingZero(ci, stock, amount) ==
    IF ~Has(ci, stock)
    THEN Outcome(ci, "none", NoneVal)
    ELSE LET info == Get(ci, stock)
         IN  IF ~(IsNum(info.quantity) /\ IsNum(amount))
             THEN Outcome(ci, "TypeError", NoneVal)
             ELSE IF RGe(info.quantity, amount)
                  THEN Outcome(Put(ci, stock,
                                   [info EXCEPT
                                      !.quantity = RSub(@, amount)]),
                               "none", NoneVal)
                  ELSE Outcome(ci, "none", NoneVal)

\* sell_stock(stock, amount)
SellStockOn(ci, stock, amount) ==
    IF ~Has(ci, stock)
    THEN Outcome(ci, "none", NoneVal)
    ELSE LET info == Get(ci, stock)
         IN  IF ~(IsNum(info.quantity) /\ IsNum(amount))
             THEN Outcome(ci, "TypeError", NoneVal)
             ELSE IF RGe(info.quantity, amount)
                  THEN LET q == RSub(info.quantity, amount)
                       IN  IF q = Zero
                           THEN Outcome(Del(ci, stock), "none", NoneVal)
                           ELSE Outcome(Put(ci, stock,
                                            [info EXCEPT !.quantity = q]),
                                        "none", NoneVal)
                  ELSE Outcome(ci, "none", NoneVal)

(***************************************************************************)
(* Allocation calculator.                                                  *)
(***************************************************************************)
Result(exc, ret) == [exc |-> exc, ret |-> ret]

\* sum([info['quantity'] * info['current_price'] for info in ...values()])
RECURSIVE SumValues(_, _, _)
SumValues(ci, i, acc) ==
    IF i > Len(ci)
    THEN Result("none", acc)
    ELSE LET info == ci[i].info
         IN  IF ~HasKey(info, "current_price")
             THEN Result("KeyError", NoneVal)
             ELSE IF ~(IsNum(info.quantity) /\ IsNum(info.current_price))
                  THEN Result("TypeError", NoneVal)
                  ELSE SumValues(ci, i + 1,
                                 RAdd(acc, RMul(info.quantity,
                                                info.current_price)))

TotalPortfolioValue(ci) == SumValues(ci, 1, Zero)

\* calculate_current_allocation, had it taken the quantity for the value
CalculateCurrentAllocationOnQuantity(ci, stock) ==
    LET total == TotalPortfolioValue(ci)
    IN  IF total.exc # "none"
        THEN Result(total.exc, NoneVal)
        ELSE IF ~Has(ci, stock)
             THEN Result("KeyError", NoneVal)
             ELSE LET info == Get(ci, stock)
                      stock_value == info.quantity
                  IN  IF RLt(Zero, total.ret)
                      THEN Result("none", RDiv(stock_value, total.ret))
                      ELSE Result("none", Zero)

\* calculate_current_allocation(stock)
CalculateCurrentAllocationOn(ci, stock) ==
    LET total == TotalPortfolioValue(ci)
    IN  IF total.exc # "none"
        THEN Result(total.exc, NoneVal)
        ELSE IF ~Has(ci, stock)
             THEN Result("KeyError", NoneVal)
             ELSE LET info == Get(ci, stock)
                      stock_value == RMul(info.quantity, info.current_price)
                  IN  IF RLt(Zero, total.ret)
                      THEN Result("none", RDiv(stock_value, total.ret))
                      ELSE Result("none", Zero)

\* the division that ends calculate_amount_to_buy / calculate_amount_to_sell
DivideByPrice(ci, stock, value) ==
    IF ~Has(ci, stock) \/ ~HasKey(Get(ci, stock), "current_price")
    THEN Result("KeyError", NoneVal)
    ELSE LET price == Get(ci, stock).current_price
         IN  IF ~IsNum(price)
             THEN Result("TypeError", NoneVal)
             ELSE IF price = Zero
                  THEN Result("ZeroDivisionError", NoneVal)
                  ELSE Result("none", RDiv(value, price))

\* calculate_amount_to_buy(stock, desired_allocation, current_allocation)
CalculateAmountToBuyOn(ci, stock, desired_allocation, current_allocation) ==
    LET total == TotalPortfolioValue(ci)
    IN  IF total.exc # "none"
        THEN Result(total.exc, NoneVal)
        ELSE LET desired_stock_value == RMul(desired_allocation, total.ret)
                 current_stock_value == RMul(current_allocation, total.ret)
             IN  DivideByPrice(ci, stock,
                               RSub(desired_stock_value, current_stock_value))

\* calculate_amount_to_sell(stock, desired_allocation, current_allocation)
CalculateAmountToSellOn(ci, stock, desired_allocation, current_allocation) ==
    LET total == TotalPortfolioValue(ci)
    IN  IF total.exc # "none"
        THEN Result(total.exc, NoneVal)
        ELSE LET desired_stock_value == RMul(desired_allocation, total.ret)
                 current_stock_value == RMul(current_allocation, total.ret)
             IN  DivideByPrice(ci, stock,
                               RSub(current_stock_value, desired_stock_value))

(***************************************************************************)
(* Decision policy.                                                        *)
(***************************************************************************)
Half == <<1, 2>>

\* should_buy(stock, market_info)
ShouldBuy(market_info) ==
    IF ~HasKey(market_info, "sentiment")
    THEN [exc |-> "KeyError", ret |-> FALSE]
    ELSE IF ~RLt(Half, market_info.sentiment)
         THEN [exc |-> "none", ret |-> FALSE]
         ELSE IF ~HasKey(market_info, "is_undervalued")
              THEN [exc |-> "KeyError", ret |-> FALSE]
              ELSE [exc |-> "none", ret |-> market_info.is_undervalued]

\* should_sell(stock, market_info)
ShouldSell(market_info) ==
    IF ~HasKey(market_info, "sentiment")
    THEN [exc |-> "KeyError", ret |-> FALSE]
    ELSE IF RLt(market_info.sentiment, Half)
         THEN [exc |-> "none", ret |-> TRUE]
         ELSE IF ~HasKey(market_info, "is_overvalued")
              THEN [exc |-> "KeyError", ret |-> FALSE]
              ELSE [exc |-> "none", ret |-> market_info.is_overvalued]
(***************************************************************************)
(* Portfolio manager.                                                      *)
(***************************************************************************)
\* What one visit of a loop of manage_portfolio (or one rebalance_stock) did:
\* the trade it routed to (op "none" when it routed to none), the amount it
\* passed, the portfolio before the visit and the exception that ended it.
Visit(step, stock, op, amount, pre, exc) ==
    [step |-> step, stock |-> stock, op |-> op, amount |-> amount,
     pre |-> pre, exc |-> exc]

Traced(ci, exc, trace) == [ci |-> ci, exc |-> exc, trace |-> trace]

\* rebalance_stock(stock, info), info being the holding of stock
RebalanceStockOn(ci, stock, info, step) ==
    IF ~HasKey(info, "desired_allocation")
    THEN Traced(ci, "KeyError",
                <<Visit(step, stock, "none", NoneVal, ci, "KeyError")>>)
    ELSE
    LET desired_allocation == info.desired_allocation
        current == CalculateCurrentAllocationOn(ci, stock)
        current_allocation == current.ret
    IN  IF current.exc # "none"
        THEN Traced(ci, current.exc,
                    <<Visit(step, stock, "none", NoneVal, ci, current.exc)>>)
        ELSE IF ~IsNum(desired_allocation)
        THEN Traced(ci, "TypeError",
                    <<Visit(step, stock, "none", NoneVal, ci, "TypeError")>>)
        ELSE IF RLt(current_allocation, desired_allocation)
        THEN LET amount_to_buy ==
                     CalculateAmountToBuyOn(ci, stock, desired_allocation,
                                            current_allocation)
                 bought == BuyStockOn(ci, stock, amount_to_buy.ret)
             IN  IF amount_to_buy.exc # "none"
                 THEN Traced(ci, amount_to_buy.exc,
                             <<Visit(step, stock, "none", NoneVal, ci,
                                     amount_to_buy.exc)>>)
                 ELSE Traced(bought.ci, bought.exc,
                             <<Visit(step, stock, "buy_stock",
                                     amount_to_buy.ret, ci, bought.exc)>>)
        ELSE IF RLt(desired_allocation, current_allocation)
        THEN LET amount_to_sell ==
                     CalculateAmountToSellOn(ci, stock, desired_allocation,
                                             current_allocation)
                 sold == SellStockOn(ci, stock, amount_to_sell.ret)
             IN  IF amount_to_sell.exc # "none"
                 THEN Traced(ci, amount_to_sell.exc,
                             <<Visit(step, stock, "none", NoneVal, ci,
                                     amount_to_sell.exc)>>)
                 ELSE Traced(sold.ci, sold.exc,
                             <<Visit(step, stock, "sell_stock",
                                     amount_to_sell.ret, ci, sold.exc)>>)
        ELSE Traced(ci, "none",
                    <<Visit(step, stock, "none", NoneVal, ci, "none")>>)

\* One step of the first loop of manage_portfolio, over
\* current_investments.items(): the iterator's next(), then the loop body.
\* keys is the dict as it was when the loop began; next() raises
\* RuntimeError once the dict has changed size, also when it is called after
\* the last item.
RebalanceNext(st, keys, i) ==
    IF Len(st.ci) # Len(keys)
    THEN Traced(st.ci, "RuntimeError", st.trace)
    ELSE IF i > Len(keys)
    THEN st
    ELSE
    LET stock == keys[i].stock
        info == Get(st.ci, stock)
        r == RebalanceStockOn(st.ci, stock, info, 1)
    IN  IF ~HasKey(info, "should_rebalance")
        THEN Traced(st.ci, "KeyError",
                    st.trace \o <<Visit(1, stock, "none", NoneVal, st.ci,
                                        "KeyError")>>)
        ELSE IF info.should_rebalance
        THEN Traced(r.ci, r.exc, st.trace \o r.trace)
        ELSE Traced(st.ci, "none",
                    st.trace \o <<Visit(1, stock, "none", NoneVal, st.ci,
                                        "none")>>)

RECURSIVE RebalanceLoop(_, _, _)
RebalanceLoop(st, keys, i) ==
    IF st.exc # "none" \/ i > Len(keys) + 1
    THEN st
    ELSE RebalanceLoop(RebalanceNext(st, keys, i), keys, i + 1)

\* The body of the second loop of manage_portfolio, over
\* market_knowledge.items(): the market_info dict itself is what is passed
\* as the amount.
TradeNext(st, stock, market_info) ==
    LET buy == ShouldBuy(market_info)
        sell == ShouldSell(market_info)
        op == IF buy.exc # "none" THEN "none"
              ELSE IF buy.ret THEN "buy_stock"
              ELSE IF sell.exc # "none" THEN "none"
              ELSE IF sell.ret THEN "sell_stock"
              ELSE "none"
        r == IF buy.exc # "none" THEN Outcome(st.ci, buy.exc, NoneVal)
             ELSE IF buy.ret THEN BuyStockOn(st.ci, stock, DictVal)
             ELSE IF sell.exc # "none" THEN Outcome(st.ci, sell.exc, NoneVal)
             ELSE IF sell.ret THEN SellStockOn(st.ci, stock, DictVal)
             ELSE Outcome(st.ci, "none", NoneVal)
    IN  Traced(r.ci, r.exc,
               st.trace \o <<Visit(2, stock, op,
                                   IF op = "none" THEN NoneVal ELSE DictVal,
                                   st.ci, r.exc)>>)

RECURSIVE TradeLoop(_, _, _)
TradeLoop(st, mk, i) ==
    IF st.exc # "none" \/ i > Len(mk)
    THEN st
    ELSE TradeLoop(TradeNext(st, mk[i].stock, mk[i].info), mk, i + 1)

\* manage_portfolio()
ManagePortfolioOn(ci) ==
    TradeLoop(RebalanceLoop(Traced(ci, "none", <<>>), ci, 1),
              market_knowledge, 1)

\* dict.update(new): conduct_market_research merges the empty dict
RECURSIVE Update(_, _, _)
Update(d, new, i) ==
    IF i > Len(new) THEN d
    ELSE Update(Put(d, new[i].stock, new[i].info), new, i + 1)

new_market_info == <<>>

(***************************************************************************)
(* The calls on a Persona.  call records the last one: the method, its     *)
(* arguments, the portfolio before it, the exception it raised, the value  *)
(* it returned and the visits its loops made.                              *)
(***************************************************************************)
Called(op, stock, amount, pre, exc, ret, trace) ==
    [op |-> op, stock |-> stock, amount |-> amount, pre |-> pre,
     exc |-> exc, ret |-> ret, trace |-> trace]

\* Persona.__init__
Init ==
    /\ market_knowledge = SeedMarketKnowledge
    /\ current_investments \in LoadablePortfolios
    /\ call = Called("__init__", "", NoneVal, <<>>, "none", NoneVal, <<>>)
    /\ nops = 0

\* __init__ when there is no saved portfolio to load
InitEmpty ==
    /\ Init
    /\ current_investments = <<>>

BuyStock(stock, amount) ==
    /\ nops < MaxOps
    /\ LET r == BuyStockOn(current_investments, stock, amount)
       IN  /\ current_investments' = r.ci
           /\ call' = Called("buy_stock", stock, amount, current_investments,
                             r.exc, r.ret, <<>>)
    /\ nops' = nops + 1
    /\ UNCHANGED market_knowledge

SellStock(stock, amount) ==
    /\ nops < MaxOps
    /\ LET r == SellStockOn(current_investments, stock, amount)
       IN  /\ current_investments' = r.ci
           /\ call' = Called("sell_stock", stock, amount, current_investments,
                             r.exc, r.ret, <<>>)
    /\ nops' = nops + 1
    /\ UNCHANGED market_knowledge

CalculateCurrentAllocation(stock) ==
    /\ nops < MaxOps
    /\ LET r == CalculateCurrentAllocationOn(current_investments, stock)
       IN  call' = Called("calculate_current_allocation", stock, NoneVal,
                          current_investments, r.exc, r.ret, <<>>)
    /\ nops' = nops + 1
    /\ UNCHANGED <<current_investments, market_knowledge>>

RebalanceStock(stock) ==
    /\ nops < MaxOps
    /\ Has(current_investments, stock)
    /\ LET r == RebalanceStockOn(current_investments, stock,
                                 Get(current_investments, stock), 0)
       IN  /\ current_investments' = r.ci
           /\ call' = Called("rebalance_stock", stock, NoneVal,
                             current_investments, r.exc, NoneVal, r.trace)
    /\ nops' = nops + 1
    /\ UNCHANGED market_knowledge

ManagePortfolio ==
    /\ nops < MaxOps
    /\ LET r == ManagePortfolioOn(current_investments)
       IN  /\ current_investments' = r.ci
           /\ call' = Called("manage_portfolio", "", NoneVal,
                             current_investments, r.exc, NoneVal, r.trace)
    /\ nops' = nops + 1
    /\ UNCHANGED market_knowledge

ConductMarketResearch ==
    /\ nops < MaxOps
    /\ market_knowledge' = Update(market_knowledge, new_market_info, 1)
    /\ call' = Called("conduct_market_research", "", NoneVal,
                      current_investments, "none", NoneVal, <<>>)
    /\ nops' = nops + 1
    /\ UNCHANGED current_investments

Trade ==
    \E stock \in Symbols, amount \in Amounts :
        \/ BuyStock(stock, amount)
        \/ SellStock(stock, amount)

Query == \E stock \in Symbols : CalculateCurrentAllocation(stock)

Rebalance == \E stock \in Symbols : RebalanceStock(stock)

Next ==
    \/ Trade
    \/ Query
    \/ Rebalance
    \/ ManagePortfolio
    \/ ConductMarketResearch

Spec == Init /\ [][Next]_vars

\* buy_stock and sell_stock alone, on a Persona that started with no holdings
SpecTrades == InitEmpty /\ [][Trade]_vars
(***************************************************************************)
(* What the claims speak of.                                               *)
(***************************************************************************)
HoldingKeys ==
    {"quantity", "purchase_price", "current_price", "desired_allocation",
     "should_rebalance"}

\* every holding has every key, a positive quantity and a positive price
WellFormed(ci) ==
    \A i \in 1..Len(ci) :
        /\ DOMAIN ci[i].info = HoldingKeys
        /\ IsNum(ci[i].info.quantity) /\ RLt(Zero, ci[i].info.quantity)
        /\ IsNum(ci[i].info.current_price)
        /\ RLt(Zero, ci[i].info.current_price)
        /\ IsNum(ci[i].info.desired_allocation)

\* every holding has a current price, a positive quantity and a positive price
Priced(ci) ==
    \A i \in 1..Len(ci) :
        /\ HasKey(ci[i].info, "current_price")
        /\ IsNum(ci[i].info.quantity) /\ RLt(Zero, ci[i].info.quantity)
        /\ IsNum(ci[i].info.current_price)
        /\ RLt(Zero, ci[i].info.current_price)

\* value(s) = quantity(s) * current_price(s), of a priced portfolio
ValueOf(ci, s) == RMul(Get(ci, s).quantity, Get(ci, s).current_price)

RECURSIVE TotalOf(_, _)
TotalOf(ci, i) ==
    IF i > Len(ci) THEN Zero
    ELSE RAdd(RMul(ci[i].info.quantity, ci[i].info.current_price),
              TotalOf(ci, i + 1))

\* value(s) / total value, 0 when the total is 0, of a priced portfolio
AllocationOf(ci, s) ==
    IF RLt(Zero, TotalOf(ci, 1)) THEN RDiv(ValueOf(ci, s), TotalOf(ci, 1))
    ELSE Zero

\* the holdings other than s are the same in both portfolios
OthersSame(before, after, s) ==
    /\ Keys(after) \ {s} = Keys(before) \ {s}
    /\ \A t \in Keys(before) \ {s} : Get(after, t) = Get(before, t)

\* C1: starting from an empty portfolio, after any sequence of buy_stock and
\* sell_stock calls every holding in the portfolio has a quantity > 0.
C1_QuantitiesPositive ==
    \A i \in 1..Len(current_investments) :
        /\ IsNum(current_investments[i].info.quantity)
        /\ RLt(Zero, current_investments[i].info.quantity)

\* C2: sell_stock on a symbol that is not held, or held in a quantity less
\* than the requested one, leaves the whole portfolio as it was.
C2_InvalidSellIsNoOp ==
    (/\ call.op = "sell_stock"
     /\ IsNum(call.amount)
     /\ \/ ~Has(call.pre, call.stock)
        \/ /\ IsNum(Get(call.pre, call.stock).quantity)
           /\ RLt(Get(call.pre, call.stock).quantity, call.amount))
    => current_investments = call.pre

C2_Witness ==
    /\ call.op = "sell_stock"
    /\ Len(call.pre) = 2
    /\ Has(call.pre, call.stock)
    /\ IsNum(Get(call.pre, call.stock).quantity)
    /\ RLt(Get(call.pre, call.stock).quantity, call.amount)

\* C3: buy_stock(s, q) of a symbol s that is not held, followed at once by
\* sell_stock(s, q), leaves the portfolio as it was before the buy.
C3_RoundTrip ==
    [][(/\ call.op = "buy_stock"
        /\ call.exc = "none"
        /\ ~Has(call.pre, call.stock)
        /\ call'.op = "sell_stock"
        /\ call'.stock = call.stock
        /\ call'.amount = call.amount)
       => current_investments' = call.pre]_vars

\* the second call of a behaviour sold the whole of a holding that only a
\* buy_stock, the first call, can have made, beside another holding
C3_Witness ==
    /\ nops = 2
    /\ call.op = "sell_stock"
    /\ Has(call.pre, call.stock)
    /\ DOMAIN Get(call.pre, call.stock) = {"quantity", "purchase_price"}
    /\ Get(call.pre, call.stock).quantity = call.amount
    /\ IsNum(call.amount)
    /\ Len(current_investments) = 1
    /\ ~Has(current_investments, call.stock)

\* C4: buy_stock on a symbol not held inserts a holding with the requested
\* quantity and the symbol's current market price as purchase_price; on a
\* symbol held (in a numeric quantity) it adds the requested quantity and
\* leaves the purchase_price alone; no other holding changes.
C4_Buy ==
    (call.op = "buy_stock" /\ IsNum(call.amount))
    => IF ~Has(call.pre, call.stock)
       THEN /\ Has(current_investments, call.stock)
            /\ Get(current_investments, call.stock).quantity = call.amount
            /\ Get(current_investments, call.stock).purchase_price
                   = Get(market_knowledge, call.stock).current_price
            /\ OthersSame(call.pre, current_investments, call.stock)
       ELSE IsNum(Get(call.pre, call.stock).quantity)
            => /\ Has(current_investments, call.stock)
               /\ Get(current_investments, call.stock).quantity
                      = RAdd(Get(call.pre, call.stock).quantity, call.amount)
               /\ Get(current_investments, call.stock).purchase_price
                      = Get(call.pre, call.stock).purchase_price
               /\ OthersSame(call.pre, current_investments, call.stock)

\* Scenario A: buy_stock("StockA", 10) on the empty portfolio
C4_Witness ==
    /\ call.op = "buy_stock"
    /\ call.stock = "StockA"
    /\ call.amount = Num(10)
    /\ call.pre = <<>>
    /\ current_investments =
           <<[stock |-> "StockA",
              info |-> [quantity |-> Num(10), purchase_price |-> Num(100)]]>>

RECURSIVE AllocationsFrom(_, _)
AllocationsFrom(ci, i) ==
    IF i > Len(ci) THEN Zero
    ELSE RAdd(CalculateCurrentAllocationOn(ci, ci[i].stock).ret,
              AllocationsFrom(ci, i + 1))

\* C5: in a non-empty portfolio whose holdings all have a positive quantity
\* and a positive current price, calculate_current_allocation returns for
\* every holding and the values it returns sum to 1.
C5_AllocationsSumToOne ==
    (Len(current_investments) > 0 /\ Priced(current_investments))
    => /\ \A s \in Keys(current_investments) :
              CalculateCurrentAllocationOn(current_investments, s).exc = "none"
       /\ AllocationsFrom(current_investments, 1) = One

\* calculate_current_allocation returned 1/3 for one of two holdings, of
\* which a trade has changed one
C5_Witness ==
    /\ nops = 2
    /\ call.op = "calculate_current_allocation"
    /\ call.exc = "none"
    /\ call.ret = <<1, 3>>
    /\ Len(current_investments) = 2
    /\ Priced(current_investments)
    /\ \E i \in 1..2 : current_investments[i].info.quantity = Num(20)

\* C6: calculate_current_allocation on the empty portfolio returns 0 and
\* raises nothing, for every symbol.
C6_EmptyAllocationIsZero ==
    (call.op = "calculate_current_allocation" /\ call.pre = <<>>)
    => (call.exc = "none" /\ call.ret = Zero)

\* the visits the first loop of the last manage_portfolio paid to stock s
RebalanceVisits(s) ==
    {j \in 1..Len(call.trace) :
        call.trace[j].step = 1 /\ call.trace[j].stock = s}

\* visit v routed as the claim says: with c the allocation, d the target, T
\* the total value and p the price when the holding was visited
RoutedToTarget(v) ==
    LET c == AllocationOf(v.pre, v.stock)
        d == Get(v.pre, v.stock).desired_allocation
        T == TotalOf(v.pre, 1)
        p == Get(v.pre, v.stock).current_price
    IN  IF RLt(c, d)
        THEN /\ v.op = "buy_stock" /\ v.exc = "none"
             /\ v.amount = RDiv(RMul(RSub(d, c), T), p)
        ELSE IF RLt(d, c)
        THEN /\ v.op = "sell_stock" /\ v.exc = "none"
             /\ v.amount = RDiv(RMul(RSub(c, d), T), p)
        ELSE v.op = "none"

\* C7: in the first loop of manage_portfolio every holding flagged
\* should_rebalance gets exactly one trade, a buy of (d - c) * T / p when
\* c < d and a sell of (c - d) * T / p when c > d, and none when c = d; a
\* holding that is not flagged gets no trade.
C7_EveryFlaggedHoldingRebalanced ==
    (call.op = "manage_portfolio" /\ WellFormed(call.pre))
    => \A i \in 1..Len(call.pre) :
          LET s == call.pre[i].stock
          IN  IF call.pre[i].info.should_rebalance
              THEN /\ Cardinality(RebalanceVisits(s)) = 1
                   /\ \A j \in RebalanceVisits(s) :
                          RoutedToTarget(call.trace[j])
              ELSE \A j \in RebalanceVisits(s) : call.trace[j].op = "none"

\* The same on the cycles whose first loop was not ended by a holding's
\* removal: there the routing and the amounts are the stated ones.
RebalancedUnlessAborted ==
    (/\ call.op = "manage_portfolio"
     /\ WellFormed(call.pre)
     /\ call.exc # "RuntimeError")
    => \A i \in 1..Len(call.pre) :
          LET s == call.pre[i].stock
          IN  IF call.pre[i].info.should_rebalance
              THEN /\ Cardinality(RebalanceVisits(s)) = 1
                   /\ \A j \in RebalanceVisits(s) :
                          RoutedToTarget(call.trace[j])
              ELSE \A j \in RebalanceVisits(s) : call.trace[j].op = "none"

\* C8: after rebalance_stock of a holding whose allocation differed from its
\* desired_allocation, the holding's allocation in the updated portfolio is
\* its desired_allocation (0 for a holding that is no longer there).
C8_RebalanceReachesTarget ==
    (/\ call.op = "rebalance_stock"
     /\ call.exc = "none"
     /\ WellFormed(call.pre)
     /\ AllocationOf(call.pre, call.stock)
           # Get(call.pre, call.stock).desired_allocation)
    => (IF Has(current_investments, call.stock)
        THEN AllocationOf(current_investments, call.stock)
        ELSE Zero) = Get(call.pre, call.stock).desired_allocation

\* C9: manage_portfolio always runs to its end: it raises nothing, visits
\* every holding and then every symbol of market_knowledge.
C9_CycleCompletes ==
    call.op = "manage_portfolio"
    => /\ call.exc = "none"
       /\ \A s \in Keys(call.pre) : RebalanceVisits(s) # {}
       /\ \A s \in Keys(market_knowledge) :
              \E j \in 1..Len(call.trace) :
                  call.trace[j].step = 2 /\ call.trace[j].stock = s

\* C10: a sell_stock of a symbol whose holding the sell_stock before it has
\* just removed ends in a way the caller can tell from that successful sell.
C10_SecondSellReportsFailure ==
    [][(/\ call.op = "sell_stock"
        /\ Has(call.pre, call.stock)
        /\ ~Has(current_investments, call.stock)
        /\ call'.op = "sell_stock"
        /\ call'.stock = call.stock)
       => <<call'.exc, call'.ret>> # <<call.exc, call.ret>>]_vars
====
